---- MODULE Spec2Model ----
(***************************************************************************)
(* Model of the cosmos_writer contract (src/src/contract.rs, state.rs,     *)
(* msg.rs): one stored State {data, admins} under the storage key "state", *)
(* the entry points instantiate / execute / query and the three closures   *)
(* handed to STATE.update.  Every entry point runs to completion, so each  *)
(* one is a single action.                                                 *)
(***************************************************************************)
EXTENDS Integers, Sequences, FiniteSets, TLC

(* ------------------------------------------------------------------ *)
(* Bounds and input sets                                              *)
(* ------------------------------------------------------------------ *)

\* longest byte blob drawn as a payload
MaxDataLen == 1

\* byte values used in payloads (the values the tests write)
ByteVals == {17, 18}

\* payloads: every Vec<u8> over ByteVals up to MaxDataLen bytes
Datas == UNION {[1..n -> ByteVals] : n \in 0..MaxDataLen}

\* well-formed addresses: senders, and admin strings that validate
Addrs == {"creator", "new_user", "anyone"}

\* admin strings below the minimum address length of 3 characters
TooShort == {"", "xy"}

\* admin strings that addr_validate rejects: too short, or not in normalized case
Malformed == TooShort \cup {"CREATOR"}

\* admin: String of ExecuteMsg::AddAdmin / RemoveAdmin
AdminStrings == Addrs \cup Malformed

(* ------------------------------------------------------------------ *)
(* Program constants and types                                        *)
(* ------------------------------------------------------------------ *)

CONTRACT_NAME == "test_cosmos_writer"

\* struct State { data: Vec<u8>, admins: Vec<Addr> }
State(data, admins) == [data |-> data, admins |-> admins]

\* the storage slot of Item "state": absent, or holding a State
NoState == [exists |-> FALSE, data |-> <<>>, admins |-> <<>>]
Stored(state) == [exists |-> TRUE, data |-> state.data, admins |-> state.admins]

\* Result<State, ContractError> of a closure
Ok(state) == [ok |-> TRUE, state |-> state, err |-> "Ok"]
Err(e) == [ok |-> FALSE, state |-> State(<<>>, <<>>), err |-> e]

(* ------------------------------------------------------------------ *)
(* Library operations the handlers call                               *)
(* ------------------------------------------------------------------ *)

\* Vec::contains
contains(v, x) == \E i \in 1..Len(v) : v[i] = x

\* Vec::push
push(v, x) == Append(v, x)

\* Vec::retain(|x| x != &y)
retain_ne(v, y) == SelectSeq(v, LAMBDA x : x /= y)

\* str::to_lowercase on the admin strings drawn here
to_lowercase(s) == IF s = "CREATOR" THEN "creator" ELSE s

\* deps.api.addr_validate: canonicalize (length check, case folding), humanize, and
\* accept the input only when it equals its normalized form; the Addr is the input
addr_validate(s) ==
    IF s \in TooShort
    THEN [ok |-> FALSE, addr |-> s, err |-> "InvalidAddress"]
    ELSE LET normalized == to_lowercase(s) IN
         IF s /= normalized
         THEN [ok |-> FALSE, addr |-> s, err |-> "InvalidAddress"]
         ELSE [ok |-> TRUE, addr |-> s, err |-> "Ok"]

\* Item::load
STATE_load(store) ==
    IF store.exists
    THEN Ok(State(store.data, store.admins))
    ELSE Err("NotFound")

\* Item::save
STATE_save(store, state) == Stored(state)

\* Item::update: load, apply the closure, save only when it returns Ok;
\* applied is the closure's result on the loaded State, read only after the load succeeds
STATE_update(store, applied) ==
    LET l == STATE_load(store) IN
    IF ~l.ok
    THEN [ok |-> FALSE, err |-> l.err, store |-> store]
    ELSE IF applied.ok
         THEN [ok |-> TRUE, err |-> "Ok", store |-> STATE_save(store, applied.state)]
         ELSE [ok |-> FALSE, err |-> applied.err, store |-> store]

\* the State handed to the closure by Item::update
Loaded(store) == State(store.data, store.admins)

(* ------------------------------------------------------------------ *)
(* Closures of execute::update / add_admin / remove_admin             *)
(* ------------------------------------------------------------------ *)

\* mutant: the authorization failure is swallowed and reported as Ok
update_closure_swallow(state, sender, data) ==
    IF ~contains(state.admins, sender)
    THEN Ok(state)
    ELSE Ok([state EXCEPT !.data = data])

\* mutant: the new bytes are merged onto the old ones
update_closure_merge(state, sender, data) ==
    IF ~contains(state.admins, sender)
    THEN Err("Unauthorized")
    ELSE Ok([state EXCEPT !.data = state.data \o data])

\* mutant: no membership check of the sender
update_closure_noauth(state, sender, data) ==
    Ok([state EXCEPT !.data = data])

\* mutant: the writer also becomes the only admin
update_closure_take_ownership(state, sender, data) ==
    IF ~contains(state.admins, sender)
    THEN Err("Unauthorized")
    ELSE Ok([state EXCEPT !.data = data, !.admins = <<sender>>])

update_closure(state, sender, data) ==
    IF ~contains(state.admins, sender)
    THEN Err("Unauthorized")
    ELSE Ok([state EXCEPT !.data = data])

\* mutant: the address is validated before the sender is checked
add_admin_closure_validate_first(state, sender, admin) ==
    LET new_admin == addr_validate(admin) IN
    IF ~new_admin.ok
    THEN Err(new_admin.err)
    ELSE IF ~contains(state.admins, sender)
         THEN Err("Unauthorized")
         ELSE IF ~contains(state.admins, new_admin.addr)
              THEN Ok([state EXCEPT !.admins = push(state.admins, new_admin.addr)])
              ELSE Ok(state)

\* mutant: the new admin is pushed without the contains test
add_admin_closure_always_push(state, sender, admin) ==
    IF ~contains(state.admins, sender)
    THEN Err("Unauthorized")
    ELSE LET new_admin == addr_validate(admin) IN
         IF ~new_admin.ok
         THEN Err(new_admin.err)
         ELSE Ok([state EXCEPT !.admins = push(state.admins, new_admin.addr)])

\* mutant: the new admin is inserted at the front of the list
add_admin_closure_push_front(state, sender, admin) ==
    IF ~contains(state.admins, sender)
    THEN Err("Unauthorized")
    ELSE LET new_admin == addr_validate(admin) IN
         IF ~new_admin.ok
         THEN Err(new_admin.err)
         ELSE IF ~contains(state.admins, new_admin.addr)
              THEN Ok([state EXCEPT !.admins = <<new_admin.addr>> \o state.admins])
              ELSE Ok(state)

add_admin_closure(state, sender, admin) ==
    IF ~contains(state.admins, sender)
    THEN Err("Unauthorized")
    ELSE LET new_admin == addr_validate(admin) IN
         IF ~new_admin.ok
         THEN Err(new_admin.err)
         ELSE IF ~contains(state.admins, new_admin.addr)
              THEN Ok([state EXCEPT !.admins = push(state.admins, new_admin.addr)])
              ELSE Ok(state)

\* mutant: retain keeps the named admin and drops the others
remove_admin_closure_inverted(state, sender, admin) ==
    IF ~contains(state.admins, sender)
    THEN Err("Unauthorized")
    ELSE LET remove_admin == addr_validate(admin) IN
         IF ~remove_admin.ok
         THEN Err(remove_admin.err)
         ELSE Ok([state EXCEPT !.admins =
                      SelectSeq(state.admins, LAMBDA x : x = remove_admin.addr)])

\* mutant: the list is left as it was
remove_admin_closure_keep(state, sender, admin) ==
    IF ~contains(state.admins, sender)
    THEN Err("Unauthorized")
    ELSE LET remove_admin == addr_validate(admin) IN
         IF ~remove_admin.ok
         THEN Err(remove_admin.err)
         ELSE Ok(state)

\* mutant: the first entry is dropped instead of the matching one
remove_admin_closure_drop_first(state, sender, admin) ==
    IF ~contains(state.admins, sender)
    THEN Err("Unauthorized")
    ELSE LET remove_admin == addr_validate(admin) IN
         IF ~remove_admin.ok
         THEN Err(remove_admin.err)
         ELSE IF ~contains(state.admins, remove_admin.addr)
              THEN Ok(state)
              ELSE Ok([state EXCEPT !.admins = Tail(state.admins)])

remove_admin_closure(state, sender, admin) ==
    IF ~contains(state.admins, sender)
    THEN Err("Unauthorized")
    ELSE LET remove_admin == addr_validate(admin) IN
         IF ~remove_admin.ok
         THEN Err(remove_admin.err)
         ELSE Ok([state EXCEPT !.admins = retain_ne(state.admins, remove_admin.addr)])

(* ------------------------------------------------------------------ *)
(* Entry points, as functions of the storage and the message          *)
(* ------------------------------------------------------------------ *)

\* Result<Response, ContractError> of a handler together with the storage it leaves
Reply(status, attrs, store) == [status |-> status, attrs |-> attrs, store |-> store]

\* mutant: the record is created with an empty admin list
instantiate_no_admin(store, sender, data) ==
    Reply("Ok",
          << <<"method", "instantiate">>, <<"admin", sender>> >>,
          STATE_save(store, State(data, <<>>)))

\* instantiate: builds State {data, admins: [sender]} and saves it unconditionally
instantiate(store, sender, data) ==
    Reply("Ok",
          << <<"method", "instantiate">>, <<"admin", sender>> >>,
          STATE_save(store, State(data, <<sender>>)))

\* mutant: a Write on an empty slot creates the record for its sender
execute_update_init(store, sender, data) ==
    IF ~store.exists
    THEN Reply("Ok", << <<"action", "update">> >>, STATE_save(store, State(data, <<sender>>)))
    ELSE LET r == STATE_update(store, update_closure(Loaded(store), sender, data)) IN
         IF r.ok
         THEN Reply("Ok", << <<"action", "update">> >>, r.store)
         ELSE Reply(r.err, <<>>, r.store)

\* execute::update (ExecuteMsg::Write)
execute_update(store, sender, data) ==
    LET r == STATE_update(store, update_closure(Loaded(store), sender, data)) IN
    IF r.ok
    THEN Reply("Ok", << <<"action", "update">> >>, r.store)
    ELSE Reply(r.err, <<>>, r.store)

\* mutant: the descriptor echoes the sender instead of the admin of the message
execute_add_admin_echo_sender(store, sender, admin) ==
    LET r == STATE_update(store, add_admin_closure(Loaded(store), sender, admin)) IN
    IF r.ok
    THEN Reply("Ok", << <<"action", "add_admin">>, <<"new_admin", sender>> >>, r.store)
    ELSE Reply(r.err, <<>>, r.store)

\* execute::add_admin
execute_add_admin(store, sender, admin) ==
    LET r == STATE_update(store, add_admin_closure(Loaded(store), sender, admin)) IN
    IF r.ok
    THEN Reply("Ok", << <<"action", "add_admin">>, <<"new_admin", admin>> >>, r.store)
    ELSE Reply(r.err, <<>>, r.store)

\* execute::remove_admin
execute_remove_admin(store, sender, admin) ==
    LET r == STATE_update(store, remove_admin_closure(Loaded(store), sender, admin)) IN
    IF r.ok
    THEN Reply("Ok", << <<"action", "remove_admin">>, <<"removed_admin", admin>> >>, r.store)
    ELSE Reply(r.err, <<>>, r.store)

\* mutant: an absent record is read as the default, empty one
query_data_default(store) ==
    [status |-> "Ok", data |-> store.data]

\* query::data: GetWriteResponse { data } or the load error
query_data(store) ==
    LET l == STATE_load(store) IN
    IF l.ok
    THEN [status |-> "Ok", data |-> l.state.data]
    ELSE [status |-> l.err, data |-> <<>>]

\* mutant: the list is returned newest first
query_admins_reversed(store) ==
    LET l == STATE_load(store) IN
    IF l.ok
    THEN [status |-> "Ok",
          admins |-> [i \in 1..Len(l.state.admins) |->
                          l.state.admins[Len(l.state.admins) + 1 - i]]]
    ELSE [status |-> l.err, admins |-> <<>>]

\* query::admins: GetAdminResponse { admins } or the load error
query_admins(store) ==
    LET l == STATE_load(store) IN
    IF l.ok
    THEN [status |-> "Ok", admins |-> l.state.admins]
    ELSE [status |-> l.err, admins |-> <<>>]

(* ------------------------------------------------------------------ *)
(* State                                                              *)
(* ------------------------------------------------------------------ *)

VARIABLES
    storage,        \* deps.storage: the slot "state" of the Item STATE
    contract_info,  \* the cw2 slot written by set_contract_version
    call,           \* the last entry-point call: message, sender and what it returned
    before,         \* the slot "state" as it was when that call started
    creator,        \* sender of the latest instantiate
    grant,          \* per address: the latest successful AddAdmin / RemoveAdmin naming it
    revoked,        \* addresses removed by a RemoveAdmin and not named by an AddAdmin since
    inserted        \* current members by the time of their latest insertion, oldest first

vars == <<storage, contract_info, call, before, creator, grant, revoked, inserted>>

\* a call record; fields a message does not carry are empty
Call(op, sender, data, admin, status, attrs, reply) ==
    [op |-> op, sender |-> sender, data |-> data, admin |-> admin,
     status |-> status, attrs |-> attrs, reply |-> reply]

NoCall == Call("none", "", <<>>, "", "Ok", <<>>, <<>>)

Init ==
    /\ storage = NoState
    /\ contract_info = ""
    /\ call = NoCall
    /\ before = NoState
    /\ creator = ""
    /\ grant = [a \in Addrs |-> "none"]
    /\ revoked = {}
    /\ inserted = <<>>

\* the insertion history without x
Without(h, x) == SelectSeq(h, LAMBDA y : y /= x)

(* ------------------------------------------------------------------ *)
(* Actions: one per entry-point call                                  *)
(* ------------------------------------------------------------------ *)

Instantiate(sender, data) ==
    LET r == instantiate(storage, sender, data) IN
    /\ storage' = r.store
    /\ contract_info' = CONTRACT_NAME
    /\ call' = Call("Instantiate", sender, data, "", r.status, r.attrs, <<>>)
    /\ before' = storage
    /\ creator' = sender
    /\ grant' = [a \in Addrs |-> "none"]
    /\ inserted' = <<sender>>
    /\ UNCHANGED revoked

Write(sender, data) ==
    LET r == execute_update(storage, sender, data) IN
    /\ storage' = r.store
    /\ call' = Call("Write", sender, data, "", r.status, r.attrs, <<>>)
    /\ before' = storage
    /\ UNCHANGED <<contract_info, creator, grant, revoked, inserted>>

AddAdmin(sender, admin) ==
    LET r == execute_add_admin(storage, sender, admin) IN
    /\ storage' = r.store
    /\ call' = Call("AddAdmin", sender, <<>>, admin, r.status, r.attrs, <<>>)
    /\ before' = storage
    /\ grant' = IF r.status = "Ok" THEN [grant EXCEPT ![admin] = "add"] ELSE grant
    /\ revoked' = IF r.status = "Ok" THEN revoked \ {admin} ELSE revoked
    /\ inserted' = IF r.status = "Ok" /\ ~contains(storage.admins, admin)
                   THEN Without(inserted, admin) \o <<admin>>
                   ELSE inserted
    /\ UNCHANGED <<contract_info, creator>>

RemoveAdmin(sender, admin) ==
    LET r == execute_remove_admin(storage, sender, admin) IN
    /\ storage' = r.store
    /\ call' = Call("RemoveAdmin", sender, <<>>, admin, r.status, r.attrs, <<>>)
    /\ before' = storage
    /\ grant' = IF r.status = "Ok" THEN [grant EXCEPT ![admin] = "remove"] ELSE grant
    /\ revoked' = IF r.status = "Ok" /\ contains(storage.admins, admin)
                  THEN revoked \cup {admin}
                  ELSE revoked
    /\ inserted' = IF r.status = "Ok" THEN Without(inserted, admin) ELSE inserted
    /\ UNCHANGED <<contract_info, creator>>

GetData ==
    LET r == query_data(storage) IN
    /\ call' = Call("GetData", "", <<>>, "", r.status, <<>>, r.data)
    /\ before' = storage
    /\ UNCHANGED <<storage, contract_info, creator, grant, revoked, inserted>>

GetAdmins ==
    LET r == query_admins(storage) IN
    /\ call' = Call("GetAdmins", "", <<>>, "", r.status, <<>>, r.admins)
    /\ before' = storage
    /\ UNCHANGED <<storage, contract_info, creator, grant, revoked, inserted>>

Next ==
    \/ \E sender \in Addrs, data \in Datas : Instantiate(sender, data)
    \/ \E sender \in Addrs, data \in Datas : Write(sender, data)
    \/ \E sender \in Addrs, admin \in AdminStrings : AddAdmin(sender, admin)
    \/ \E sender \in Addrs, admin \in AdminStrings : RemoveAdmin(sender, admin)
    \/ GetData
    \/ GetAdmins

Spec == Init /\ [][Next]_vars

(* ------------------------------------------------------------------ *)
(* Vocabulary of the properties                                       *)
(* ------------------------------------------------------------------ *)

Mutating == {"Write", "AddAdmin", "RemoveAdmin"}
AdminOps == {"AddAdmin", "RemoveAdmin"}

\* the last call was made on an Active record
OnActive == before.exists

\* the sender of the last call was an admin when the call was made
SenderWasAdmin == contains(before.admins, call.sender)

\* v with its i-th entry deleted
DeleteAt(v, i) == SubSeq(v, 1, i - 1) \o SubSeq(v, i + 1, Len(v))

\* v is a prefix-preserving extension of w by exactly x
IsAppend(v, w, x) ==
    /\ Len(v) = Len(w) + 1
    /\ v[Len(v)] = x
    /\ \A i \in 1..Len(w) : v[i] = w[i]

(* ------------------------------------------------------------------ *)
(* Properties                                                         *)
(* ------------------------------------------------------------------ *)

\* C1 as stated: on an Active record a mutating call succeeds exactly when the
\* sender is in admins; a non-member gets Unauthorized and the record is unchanged.
C1_AuthorizationGate_AsStated ==
    (call.op \in Mutating /\ OnActive) =>
        /\ (call.status = "Ok") <=> SenderWasAdmin
        /\ ~SenderWasAdmin => (call.status = "Unauthorized" /\ storage = before)

\* C1 amended: on an Active record a mutating call succeeds exactly when the sender
\* is in admins and, for AddAdmin / RemoveAdmin, the admin string is well formed;
\* a non-member gets Unauthorized and the record is unchanged.
C1_AuthorizationGate ==
    (call.op \in Mutating /\ OnActive) =>
        /\ (call.status = "Ok") <=>
               (SenderWasAdmin /\ (call.op \in AdminOps => call.admin \notin Malformed))
        /\ ~SenderWasAdmin => (call.status = "Unauthorized" /\ storage = before)

C1_Witness ==
    /\ call.op = "Write"
    /\ OnActive
    /\ ~SenderWasAdmin
    /\ call.data /= before.data
    /\ call.status = "Unauthorized"

\* C2 as stated: the admins list of an Active record is never empty.
C2_AdminsNeverEmpty_AsStated ==
    storage.exists => storage.admins /= <<>>

\* C2 amended: admins is non-empty right after Instantiate, and a call that starts
\* with a non-empty list leaves it non-empty unless it is a successful RemoveAdmin
\* in which the sole remaining admin removes itself.
C2_AdminsEmptyOnlyByLastRemoval ==
    /\ call.op = "Instantiate" => storage.admins /= <<>>
    /\ (before.exists /\ before.admins /= <<>> /\ storage.admins = <<>>) =>
           /\ call.op = "RemoveAdmin"
           /\ call.status = "Ok"
           /\ before.admins = <<call.admin>>
           /\ call.sender = call.admin

C2_Witness ==
    /\ call.op = "RemoveAdmin"
    /\ call.status = "Ok"
    /\ before.admins = <<call.admin>>
    /\ storage.exists
    /\ storage.admins = <<>>

\* C3: right after Instantiate by k with payload d, GetAdmins returns exactly [k]
\* and GetData returns exactly d.
C3_InstantiatePostcondition ==
    call.op = "Instantiate" =>
        /\ call.status = "Ok"
        /\ query_admins(storage) = [status |-> "Ok", admins |-> <<call.sender>>]
        /\ query_data(storage) = [status |-> "Ok", data |-> call.data]

C3_Witness ==
    /\ call.op = "Instantiate"
    /\ ~before.exists
    /\ call.data /= <<>>
    /\ storage.admins = <<call.sender>>

\* a principal holds the grant: creator of the record and never named by a later
\* successful AddAdmin / RemoveAdmin, or last named by a successful AddAdmin
Granted(u) == (u = creator /\ grant[u] = "none") \/ grant[u] = "add"

C5_FailureAtomicity ==
    /\ call.status /= "Ok" => (storage = before /\ call.attrs = <<>>)
    /\ (call.op \in Mutating /\
          (\/ ~before.exists
           \/ ~SenderWasAdmin
           \/ (call.op \in AdminOps /\ call.admin \in Malformed))) =>
           call.status \in {"NotFound", "Unauthorized", "InvalidAddress"}
    /\ (call.op \in {"GetData", "GetAdmins"} /\ ~before.exists) =>
           call.status = "NotFound"

C5_Witness ==
    /\ call.op = "AddAdmin"
    /\ OnActive
    /\ SenderWasAdmin
    /\ call.status = "InvalidAddress"
    /\ Len(before.admins) >= 2

\* C6: after a successful Write(d), GetData returns exactly d whatever the data was.
C6_LastWriteWins ==
    (call.op = "Write" /\ call.status = "Ok") =>
        query_data(storage) = [status |-> "Ok", data |-> call.data]

C6_Witness ==
    /\ call.op = "Write"
    /\ call.status = "Ok"
    /\ before.data /= <<>>
    /\ call.data /= <<>>
    /\ call.data /= before.data
    /\ storage.data = call.data

\* C7: a successful AddAdmin leaves admins unchanged when the named admin is already
\* in it, and otherwise appends the named admin behind the unchanged previous entries.
C7_AddAdminIdempotentAppend ==
    (call.op = "AddAdmin" /\ call.status = "Ok") =>
        IF contains(before.admins, call.admin)
        THEN storage.admins = before.admins
        ELSE IsAppend(storage.admins, before.admins, call.admin)

C7_Witness ==
    /\ call.op = "AddAdmin"
    /\ call.status = "Ok"
    /\ Len(before.admins) >= 2
    /\ contains(before.admins, call.admin)
    /\ storage.admins = before.admins

\* C8: a successful RemoveAdmin of a non-member leaves admins unchanged; of a member
\* it deletes exactly that one entry, the others keeping their relative order, and
\* the named principal is no longer a member afterwards.
C8_RemoveAdminExactlyOne ==
    (call.op = "RemoveAdmin" /\ call.status = "Ok") =>
        /\ ~contains(storage.admins, call.admin)
        /\ IF ~contains(before.admins, call.admin)
           THEN storage.admins = before.admins
           ELSE /\ Len(storage.admins) = Len(before.admins) - 1
                /\ \E i \in 1..Len(before.admins) :
                       /\ before.admins[i] = call.admin
                       /\ storage.admins = DeleteAt(before.admins, i)

C8_Witness ==
    /\ call.op = "RemoveAdmin"
    /\ call.status = "Ok"
    /\ Len(before.admins) = 3
    /\ before.admins[2] = call.admin
    /\ storage.admins = <<before.admins[1], before.admins[3]>>

\* C9 as stated: on an Active record an AddAdmin / RemoveAdmin with a malformed admin
\* string fails with InvalidAddress whoever the sender is, record unchanged.
C9_ValidationFirst_AsStated ==
    (call.op \in AdminOps /\ OnActive /\ call.admin \in Malformed) =>
        (call.status = "InvalidAddress" /\ storage = before)

\* C9 amended: on an Active record an AddAdmin / RemoveAdmin with a malformed admin
\* string fails with InvalidAddress when the sender is in admins and with
\* Unauthorized when it is not (membership is checked first), record unchanged.
C9_AuthorizationFirst ==
    (call.op \in AdminOps /\ OnActive /\ call.admin \in Malformed) =>
        /\ call.status = (IF SenderWasAdmin THEN "InvalidAddress" ELSE "Unauthorized")
        /\ storage = before

C9_Witness ==
    /\ call.op \in AdminOps
    /\ OnActive
    /\ call.admin \in Malformed
    /\ ~SenderWasAdmin
    /\ call.status = "Unauthorized"

\* C10: an Instantiate on a record that is already Active changes neither data nor
\* admins.
C10_CreatedExactlyOnce ==
    (call.op = "Instantiate" /\ before.exists) => storage = before

Queries == {"GetData", "GetAdmins"}

\* no two positions of v hold the same entry
NoDuplicates(v) == \A i, j \in 1..Len(v) : i /= j => v[i] /= v[j]

\* position of x in v (x occurs in v)
IndexOf(v, x) == CHOOSE i \in 1..Len(v) : v[i] = x

\* C11: nothing is stored before the first call; a call that finds the record
\* Uninitialized leaves it Active only if it is an Instantiate; a call that finds it
\* Active leaves it Active, whether it succeeds or fails.
C11_Lifecycle ==
    /\ call.op = "none" => ~storage.exists
    /\ (~before.exists /\ storage.exists) => (call.op = "Instantiate" /\ call.status = "Ok")
    /\ (~before.exists /\ call.op /= "Instantiate") => ~storage.exists
    /\ before.exists => storage.exists

C11_Witness ==
    /\ before.exists
    /\ before.admins = <<>>
    /\ call.op = "Write"
    /\ call.status = "Unauthorized"
    /\ storage.exists

\* C12: on an Uninitialized record GetData and GetAdmins fail with NotFound, and Write,
\* AddAdmin and RemoveAdmin fail with NotFound whatever the sender and the argument,
\* leaving the record Uninitialized.
C12_UninitializedFails ==
    (~before.exists /\ call.op \in Mutating \cup Queries) =>
        /\ call.status = "NotFound"
        /\ call.attrs = <<>>
        /\ call.reply = <<>>
        /\ ~storage.exists

C12_Witness ==
    /\ ~before.exists
    /\ call.op = "AddAdmin"
    /\ call.admin \in Malformed
    /\ call.status = "NotFound"
    /\ ~storage.exists

\* C13: a call made on an Active record whose admins list is empty leaves data and
\* admins as they were, and fails with Unauthorized if it is a Write, AddAdmin or
\* RemoveAdmin.
C13_PermanentLockout ==
    (before.exists /\ before.admins = <<>>) =>
        /\ storage = before
        /\ call.op \in Mutating => call.status = "Unauthorized"

\* C14: the admins list of an Active record never holds the same entry twice.
C14_NoDuplicateAdmins ==
    storage.exists => NoDuplicates(storage.admins)

C14_Witness ==
    /\ call.op = "AddAdmin"
    /\ call.status = "Ok"
    /\ call.admin = creator
    /\ call.sender /= creator
    /\ contains(before.admins, creator)
    /\ Len(storage.admins) = 3

\* C15: a successful Write leaves admins identical and changes at most data; a
\* successful AddAdmin or RemoveAdmin leaves data identical.
C15_FrameConditions ==
    /\ (call.op = "Write" /\ call.status = "Ok") =>
           (storage.admins = before.admins /\ storage.exists)
    /\ (call.op \in AdminOps /\ call.status = "Ok") =>
           (storage.data = before.data /\ storage.exists)

C15_Witness ==
    /\ call.op = "RemoveAdmin"
    /\ call.status = "Ok"
    /\ before.data /= <<>>
    /\ storage.data = before.data
    /\ Len(storage.admins) < Len(before.admins)

\* C16: on an Active record GetData returns exactly the stored data and GetAdmins
\* exactly the stored admins in stored order, and neither changes the record.
C16_QueriesArePureReads ==
    /\ call.op \in Queries => storage = before
    /\ (call.op = "GetData" /\ OnActive) =>
           (call.status = "Ok" /\ call.reply = storage.data)
    /\ (call.op = "GetAdmins" /\ OnActive) =>
           (call.status = "Ok" /\ call.reply = storage.admins)

C16_Witness ==
    /\ call.op = "GetAdmins"
    /\ call.status = "Ok"
    /\ Len(call.reply) = 3
    /\ call.reply[1] /= creator
    /\ storage = before

\* C17: a successful Write returns action=update; a successful AddAdmin returns
\* action=add_admin and new_admin, a successful RemoveAdmin action=remove_admin and
\* removed_admin, each echoing the admin of the call, no-op or not; the echoed value
\* is the validated address, the one GetAdmins lists after an AddAdmin.
C17_SuccessDescriptors ==
    /\ (call.op = "Write" /\ call.status = "Ok") =>
           call.attrs = << <<"action", "update">> >>
    /\ (call.op = "AddAdmin" /\ call.status = "Ok") =>
           /\ call.attrs = << <<"action", "add_admin">>, <<"new_admin", call.admin>> >>
           /\ call.attrs[2][2] = addr_validate(call.admin).addr
           /\ contains(query_admins(storage).admins, call.attrs[2][2])
    /\ (call.op = "RemoveAdmin" /\ call.status = "Ok") =>
           /\ call.attrs = << <<"action", "remove_admin">>, <<"removed_admin", call.admin>> >>
           /\ call.attrs[2][2] = addr_validate(call.admin).addr

C17_Witness ==
    /\ call.op = "AddAdmin"
    /\ call.status = "Ok"
    /\ call.admin /= call.sender
    /\ contains(before.admins, call.admin)
    /\ call.attrs[2] = <<"new_admin", call.admin>>

\* C18: on an Active record a principal that was not in admins before a call is in
\* admins after it only if the call is a successful AddAdmin naming it, sent by an
\* admin; a call sent by a non-admin changes neither data nor admins.
C18_NoPrivilegeEscalation ==
    OnActive =>
        /\ \A p \in Addrs :
               (~contains(before.admins, p) /\ contains(storage.admins, p)) =>
                   /\ call.op = "AddAdmin"
                   /\ call.status = "Ok"
                   /\ call.admin = p
                   /\ SenderWasAdmin
        /\ (call.op \notin Queries /\ ~SenderWasAdmin) => storage = before

\* C19: an admin's RemoveAdmin of any well-formed address succeeds, the creator and
\* the sender itself included, and the address is then not in admins; a principal
\* removed and not named by a successful AddAdmin since is not in admins, and its
\* Write, AddAdmin and RemoveAdmin calls fail with Unauthorized.
C19_RemovedStaysOut ==
    /\ (call.op = "RemoveAdmin" /\ OnActive /\ SenderWasAdmin /\ call.admin \notin Malformed) =>
           (call.status = "Ok" /\ ~contains(storage.admins, call.admin))
    /\ storage.exists => \A p \in revoked : ~contains(storage.admins, p)
    /\ (call.op \in Mutating /\ OnActive /\ call.sender \in revoked
          /\ ~(call.op = "RemoveAdmin" /\ call.admin = call.sender)) =>
           call.status = "Unauthorized"

\* C20: the admins list orders its members by the time of their latest insertion
\* (Instantiate, or an AddAdmin that found them absent), so a re-added principal is
\* last, and two entries that survive a call keep their relative order.
C20_InsertionOrder ==
    /\ storage.exists => storage.admins = inserted
    /\ (call.op = "AddAdmin" /\ call.status = "Ok" /\ ~contains(before.admins, call.admin)) =>
           storage.admins[Len(storage.admins)] = call.admin
    /\ (before.exists /\ NoDuplicates(before.admins) /\ NoDuplicates(storage.admins)) =>
           \A x, y \in Addrs :
               (/\ contains(before.admins, x) /\ contains(before.admins, y)
                /\ contains(storage.admins, x) /\ contains(storage.admins, y)) =>
                   ((IndexOf(before.admins, x) < IndexOf(before.admins, y))
                        <=> (IndexOf(storage.admins, x) < IndexOf(storage.admins, y)))

C20_Witness ==
    /\ call.op = "AddAdmin"
    /\ call.status = "Ok"
    /\ call.admin = creator
    /\ ~contains(before.admins, call.admin)
    /\ Len(storage.admins) = 3
    /\ storage.admins[3] = call.admin

====
